---- MODULE Spec2Model ----
(***************************************************************************)
(* Model of the tracer diffusion flux kernel of Lecoanet-KH-PLUTO          *)
(* (src/tracer_rhs_flux.c, configured by src/definitions.h).               *)
(*                                                                         *)
(* A C double is modelled as an exact rational <<n, d>> in lowest terms    *)
(* with d > 0; <<0, 0>> stands for an indeterminate value (the content of  *)
(* freshly allocated memory).  Floating-point rounding is not modelled.    *)
(***************************************************************************)
EXTENDS Integers, Sequences, FiniteSets, TLC

(* ----------------------------------------------------------------------- *)
(* Bounds of the model                                                     *)
(* ----------------------------------------------------------------------- *)

\* Total number of cells (ghost cells included) of the grid in each direction.
NX1_TOT == 3
NX2_TOT == 3
NX3_TOT == 3
\* Number of completed calls after which the host stops calling the kernel.
MaxCalls == 2
\* Number of times the host doubles g_inputParam[REYNOLDS].
MaxDoublings == 1
\* Number of host threads in the concurrent host.
NThreads == 2

(* ----------------------------------------------------------------------- *)
(* Compile-time configuration (definitions.h) and host constants           *)
(* ----------------------------------------------------------------------- *)

DIMENSIONS == 2
NTRACER    == 1
REYNOLDS   == 1
U_FLOW     == 7
LENGTH     == 10

IDIR == 0
JDIR == 1
KDIR == 2
Dirs == {IDIR, JDIR, KDIR}

NX_TOT(d) == CASE d = IDIR -> NX1_TOT [] d = JDIR -> NX2_TOT [] OTHER -> NX3_TOT
Cells(d)  == 0 .. (NX_TOT(d) - 1)

Max2(a, b) == IF a >= b THEN a ELSE b
\* Longest sweep line over the three directions.
NMAX_POINT == Max2(NX1_TOT, Max2(NX2_TOT, NX3_TOT))

(* ----------------------------------------------------------------------- *)
(* Exact arithmetic standing for double                                    *)
(* ----------------------------------------------------------------------- *)

Abs(n) == IF n < 0 THEN -n ELSE n

RECURSIVE GCD(_, _)
GCD(a, b) == IF b = 0 THEN a ELSE GCD(b, a % b)

Indet == <<0, 0>>

Norm(n, d) ==
  IF d = 0 THEN Indet
  ELSE LET s == IF d < 0 THEN -1 ELSE 1
           g == GCD(Abs(n), Abs(d))
       IN  <<(s * n) \div g, (s * d) \div g>>

R(n)       == <<n, 1>>
Q(n, d)    == Norm(n, d)
Zero       == R(0)
IsIndet(a) == a[2] = 0

RAdd(a, b) == IF IsIndet(a) \/ IsIndet(b) THEN Indet
              ELSE Norm(a[1] * b[2] + b[1] * a[2], a[2] * b[2])
RSub(a, b) == IF IsIndet(a) \/ IsIndet(b) THEN Indet
              ELSE Norm(a[1] * b[2] - b[1] * a[2], a[2] * b[2])
RMul(a, b) == IF IsIndet(a) \/ IsIndet(b) THEN Indet
              ELSE Norm(a[1] * b[1], a[2] * b[2])
RDiv(a, b) == IF IsIndet(a) \/ IsIndet(b) THEN Indet
              ELSE Norm(a[1] * b[2], a[2] * b[1])

(* ----------------------------------------------------------------------- *)
(* Inputs supplied by the host: grid metrics, tracer field, sweep state,   *)
(* run-time parameters                                                     *)
(* ----------------------------------------------------------------------- *)

\* Grids are "uniform" or "stretched"; tracer fields are "constant", "xramp"
\* (1, 2, 3, ... along x on the uniform grid), "affine" or "generic".

\* Width of cell i in direction d: 0.01 everywhere, or growing with i and d.
CellWidth(kind, d, i) ==
  IF kind = "uniform" THEN Q(1, 100) ELSE Q(i + 1 + d, 100)

RECURSIVE LeftEdge(_, _, _)
LeftEdge(kind, d, i) ==
  IF i = 0 THEN Zero
  ELSE RAdd(LeftEdge(kind, d, i - 1), CellWidth(kind, d, i - 1))

CellCentre(kind, d, i) ==
  RAdd(LeftEdge(kind, d, i), RMul(Q(1, 2), CellWidth(kind, d, i)))

\* The Grid structure as the kernel reads it: dx, inv_dx, inv_dxi, x, xr.
\* inv_dxi[i] is the inverse of the distance between the centres of cells i
\* and i+1; the entry of the last cell has no forward neighbour and is unset.
MkGrid(kind) ==
  [ dx      |-> [d \in Dirs |-> [i \in Cells(d) |-> CellWidth(kind, d, i)]],
    x       |-> [d \in Dirs |-> [i \in Cells(d) |-> CellCentre(kind, d, i)]],
    xr      |-> [d \in Dirs |-> [i \in Cells(d) |->
                   RAdd(LeftEdge(kind, d, i), CellWidth(kind, d, i))]],
    inv_dx  |-> [d \in Dirs |-> [i \in Cells(d) |->
                   RDiv(R(1), CellWidth(kind, d, i))]],
    inv_dxi |-> [d \in Dirs |-> [i \in Cells(d) |->
                   IF i + 1 \in Cells(d)
                   THEN RDiv(R(1), RSub(CellCentre(kind, d, i + 1),
                                        CellCentre(kind, d, i)))
                   ELSE Indet]] ]

\* Cell-centred tracer values Field[k][j][i].
FieldValue(fk, gk, k, j, i) ==
  CASE fk = "constant" -> Q(7, 2)
    [] fk = "xramp"    ->
         RAdd(R(1), RMul(R(100), RSub(CellCentre(gk, IDIR, i),
                                      CellCentre(gk, IDIR, 0))))
    [] fk = "affine"   ->
         RAdd(RAdd(RAdd(R(1), RMul(R(2), CellCentre(gk, IDIR, i))),
                   RMul(R(-3), CellCentre(gk, JDIR, j))),
              RMul(R(5), CellCentre(gk, KDIR, k)))
    [] OTHER           ->
         R(i * i + 3 * j * j + 5 * k * k + i * j + 2 * j * k + 4 * i * k)

MkField(fk, gk) ==
  [trc \in 0 .. (NTRACER - 1) |->
     [k \in Cells(KDIR) |-> [j \in Cells(JDIR) |-> [i \in Cells(IDIR) |->
        RAdd(FieldValue(fk, gk, k, j, i), R(trc))]]]]

\* Density along the sweep line (sweep->vn[i][RHO]); the other NVAR entries
\* of vn only reach the local vi[] and are not used.
MkSweep(gk) ==
  [i \in 0 .. (NMAX_POINT - 1) |-> IF gk = "uniform" THEN R(1) ELSE R(i + 2)]

\* g_inputParam, restricted to the entries the kernel reads.
MkParams(gk) ==
  IF gk = "uniform"
  THEN (REYNOLDS :> R(10000)) @@ (U_FLOW :> R(1)) @@ (LENGTH :> R(1))
  ELSE (REYNOLDS :> R(100))   @@ (U_FLOW :> R(2)) @@ (LENGTH :> R(3))

(* ----------------------------------------------------------------------- *)
(* GetTracerGradient                                                       *)
(* ----------------------------------------------------------------------- *)

\* A sweep line is <<g_k, g_j, g_i>>; a cell is <<k, j, i>>, as in Field[k][j][i].
ValidCell(p) ==
  p[1] \in Cells(KDIR) /\ p[2] \in Cells(JDIR) /\ p[3] \in Cells(IDIR)

\* Field[k][j][i]; a read outside the array yields the value oob.
FieldAt(Field, p, oob) ==
  IF ValidCell(p) THEN Field[p[1]][p[2]][p[3]] ELSE oob

\* The cell of the sweep line at index s of the loop along direction dir.
CellOnLine(dir, line, s) ==
  CASE dir = IDIR -> <<line[1], line[2], s>>
    [] dir = JDIR -> <<line[1], s, line[3]>>
    [] OTHER      -> <<s, line[2], line[3]>>

\* Index of the sweep line along direction c (i, j or k of the code).
LineIndex(c, line, dir, s) == CellOnLine(dir, line, s)[3 - c]

\* DIM_EXPAND as it expands in a three-dimensional build.
DIM_EXPAND_ThreeD(n) == n < 3

\* DIM_EXPAND(a, b, c) keeps its first DIMENSIONS arguments.
DIM_EXPAND(n) == n < DIMENSIONS

\* The components gradField[s][c] a sweep along dir assigns: the IDIR and JDIR
\* branches sit inside DIM_EXPAND, the KDIR branch does not.
CompsWritten(dir) ==
  IF dir = KDIR THEN {0, 1, 2} ELSE {c \in {0, 1, 2} : DIM_EXPAND(c)}

\* The finite-difference stencil of component c for a sweep along dir, as
\* signed offsets <<sign, <<dk, dj, di>>>> from the cell (k, j, i), in the
\* order the code adds them.
StencilIDIR(c) ==
  CASE c = 0 -> << <<1, <<0, 0, 1>>>>, <<-1, <<0, 0, 0>>>> >>
    [] c = 1 -> << <<1, <<0, 1, 0>>>>,  <<1, <<0, 1, 1>>>>,
                   <<-1, <<0, -1, 0>>>>, <<-1, <<0, -1, 1>>>> >>
    [] OTHER -> << <<1, <<1, 0, 0>>>>,  <<1, <<1, 0, 1>>>>,
                   <<-1, <<-1, 0, 0>>>>, <<-1, <<-1, 0, 1>>>> >>

\* The JDIR stencil with the sign of one term of component 0 slipped.
StencilJDIR_SignSlip(c) ==
  CASE c = 0 -> << <<1, <<0, 0, 1>>>>,  <<1, <<0, 1, 1>>>>,
                   <<1, <<0, 0, -1>>>>, <<-1, <<0, 1, -1>>>> >>
    [] c = 1 -> << <<1, <<0, 1, 0>>>>, <<-1, <<0, 0, 0>>>> >>
    [] OTHER -> << <<1, <<1, 0, 0>>>>,  <<1, <<1, 1, 0>>>>,
                   <<-1, <<-1, 0, 0>>>>, <<-1, <<-1, 1, 0>>>> >>

StencilJDIR(c) ==
  CASE c = 0 -> << <<1, <<0, 0, 1>>>>,  <<1, <<0, 1, 1>>>>,
                   <<-1, <<0, 0, -1>>>>, <<-1, <<0, 1, -1>>>> >>
    [] c = 1 -> << <<1, <<0, 1, 0>>>>, <<-1, <<0, 0, 0>>>> >>
    [] OTHER -> << <<1, <<1, 0, 0>>>>,  <<1, <<1, 1, 0>>>>,
                   <<-1, <<-1, 0, 0>>>>, <<-1, <<-1, 1, 0>>>> >>

StencilKDIR(c) ==
  CASE c = 0 -> << <<1, <<0, 0, 1>>>>,  <<1, <<1, 0, 1>>>>,
                   <<-1, <<0, 0, -1>>>>, <<-1, <<1, 0, -1>>>> >>
    [] c = 1 -> << <<1, <<0, 1, 0>>>>,  <<1, <<1, 1, 0>>>>,
                   <<-1, <<0, -1, 0>>>>, <<-1, <<1, -1, 0>>>> >>
    [] OTHER -> << <<1, <<1, 0, 0>>>>, <<-1, <<0, 0, 0>>>> >>

Stencil(dir, c) ==
  CASE dir = IDIR -> StencilIDIR(c)
    [] dir = JDIR -> StencilJDIR(c)
    [] OTHER      -> StencilKDIR(c)

Shift(p, o) == <<p[1] + o[1], p[2] + o[2], p[3] + o[3]>>

\* The cells of Field read for component c at sweep index s.
StencilCells(dir, c, line, s) ==
  LET terms == Stencil(dir, c)
      p     == CellOnLine(dir, line, s)
  IN  {Shift(p, terms[n][2]) : n \in DOMAIN terms}

RECURSIVE SumTerms(_, _, _, _, _)
SumTerms(Field, p, terms, n, oob) ==
  LET v == FieldAt(Field, Shift(p, terms[n][2]), oob)
  IN  IF n = 1 THEN v
      ELSE IF terms[n][1] = 1
           THEN RAdd(SumTerms(Field, p, terms, n - 1, oob), v)
           ELSE RSub(SumTerms(Field, p, terms, n - 1, oob), v)

\* The line element along the sweep taken from the inverse cell width
\* (inv_dx) instead of the inverse interface spacing (inv_dxi).
LineElement_CellWidth(grd, dir, c, line, s) ==
  IF c = dir THEN grd.inv_dx[dir][s]
  ELSE grd.inv_dx[c][LineIndex(c, line, dir, s)]

\* dl1, dl2, dl3 in Cartesian geometry: the inverse interface spacing along
\* the sweep direction, the inverse cell width across it.  (r_1 = 1.0/r[i]
\* of the JDIR branch is computed and, GEOMETRY being CARTESIAN, not used.)
LineElement(grd, dir, c, line, s) ==
  IF c = dir THEN grd.inv_dxi[dir][s]
  ELSE grd.inv_dx[c][LineIndex(c, line, dir, s)]

\* The value assigned to gradField[s][c].
GradComponent(Field, grd, dir, c, line, s, oob) ==
  LET terms == Stencil(dir, c)
      diff  == SumTerms(Field, CellOnLine(dir, line, s), terms, Len(terms), oob)
      dl    == LineElement(grd, dir, c, line, s)
  IN  IF c = dir THEN RMul(diff, dl)
      ELSE RMul(RMul(Q(1, 4), diff), dl)

\* The gradient loops starting one index late, and running one index past end.
GradLoop_SkipFirst(beg, end) == (beg + 1) .. end
GradLoop_PastEnd(beg, end)   == beg .. (end + 1)

\* for (i = beg; i <= end; i++) of the gradient loops.
GradLoop(beg, end) == beg .. end

\* GetTracerGradient (Field, gradField, beg, end, grid), with the globals
\* g_dir and (g_k, g_j, g_i) it reads: gradField as the function leaves it.
GetTracerGradient(Field, gradField, beg, end, grd, dir, line, oob) ==
  [s \in DOMAIN gradField |->
     IF s \in GradLoop(beg, end)
     THEN [c \in {0, 1, 2} |->
             IF c \in CompsWritten(dir)
             THEN GradComponent(Field, grd, dir, c, line, s, oob)
             ELSE gradField[s][c]]
     ELSE gradField[s]]

\* The cells of Field that GetTracerGradient reads.
GradientReads(beg, end, dir, line) ==
  UNION {StencilCells(dir, sc[2], line, sc[1]) :
           sc \in GradLoop(beg, end) \X CompsWritten(dir)}

\* The entries <<s, c>> of gradField that GetTracerGradient assigns.
GradientWrites(beg, end, dir) == GradLoop(beg, end) \X CompsWritten(dir)

(* ----------------------------------------------------------------------- *)
(* RHS_TRACER_Flux                                                         *)
(* ----------------------------------------------------------------------- *)

UNIT_LENGTH(params)   == params[LENGTH]
UNIT_VELOCITY(params) == params[U_FLOW]

\* chi with REYNOLDS as a factor instead of a divisor.
Chi_TimesReynolds(params) ==
  LET del_u == RMul(R(2), params[U_FLOW])
  IN  RMul(RMul(params[LENGTH], del_u), params[REYNOLDS])

\* del_u, chi and nu_dye of the function's first three statements.
Chi(params) ==
  LET del_u == RMul(R(2), params[U_FLOW])
  IN  RDiv(RMul(params[LENGTH], del_u), params[REYNOLDS])

NuDye(params) ==
  RDiv(Chi(params), RMul(UNIT_LENGTH(params), UNIT_VELOCITY(params)))

\* a[i] of a one-dimensional array; a read outside the array yields oob.
ArrayAt(a, i, oob) == IF i \in DOMAIN a THEN a[i] ELSE oob

\* The plain mean of the two densities, the cell widths left out.
InterfaceValue_Unweighted(vcv, dxd, i, oob) ==
  RDiv(RAdd(ArrayAt(vcv, i, oob), ArrayAt(vcv, i + 1, oob)), R(2))

\* vi[RHO]: the density at the interface between cells i and i+1.
InterfaceValue(vcv, dxd, i, oob) ==
  RDiv(RAdd(RMul(ArrayAt(vcv, i, oob), ArrayAt(dxd, i, oob)),
            RMul(ArrayAt(vcv, i + 1, oob), ArrayAt(dxd, i + 1, oob))),
       RAdd(ArrayAt(dxd, i, oob), ArrayAt(dxd, i + 1, oob)))

\* The flux loop running one index past end.
FluxLoop_PastEnd(beg, end) == beg .. (end + 1)

\* for (i = beg; i <= end; i++) of the flux loop.
FluxLoop(beg, end) == beg .. end

\* The component of the gradient the flux uses.
FluxComponent(dir) == dir

\* Flux = vi[RHO]*nu_dye*gradTRC[trc][i][g_dir].
FluxValue(rho_if, nu, gradient) == RMul(RMul(rho_if, nu), gradient)

\* ARRAY_3D(n1, n2, n3, double): fresh memory, content indeterminate.
ARRAY_3D(n1, n2, n3) ==
  [a \in 0 .. (n1 - 1) |-> [b \in 0 .. (n2 - 1) |-> [c \in 0 .. (n3 - 1) |-> Indet]]]

\* A buffer one point short of the longest sweep line.
AllocateGradTRC_OneShort == ARRAY_3D(NTRACER, NMAX_POINT - 1, 3)

\* gradTRC = ARRAY_3D(NTRACER, NMAX_POINT, 3, double);
AllocateGradTRC == ARRAY_3D(NTRACER, NMAX_POINT, 3)

NULL == 0

\* The test of the static pointer left out: every call allocates.
AllocNeeded_Always(ptr) == TRUE

\* if (gradTRC == NULL)
AllocNeeded(ptr) == ptr = NULL

\* Step 1 of RHS_TRACER_Flux for every species: GetTracerGradient
\* (TracerField[trc], gradTRC[trc], beg, end, grid) on an allocated buffer.
GradientPass(Field, buf, beg, end, grd, dir, line, oob) ==
  [trc \in DOMAIN buf |->
     GetTracerGradient(Field[trc], buf[trc], beg, end, grd, dir, line, oob)]

\* Step 2 of RHS_TRACER_Flux: the flux loop, reading the buffer the gradient
\* pass has just filled.
FluxPass(vcv, tflux, beg, end, grd, params, buf, dir, oob) ==
  LET nu == NuDye(params)
  IN  [i \in DOMAIN tflux |->
         IF i \in FluxLoop(beg, end)
         THEN [trc \in DOMAIN buf |->
                 FluxValue(InterfaceValue(vcv, grd.dx[dir], i, oob), nu,
                           ArrayAt(buf[trc], i, [c \in {0, 1, 2} |-> oob])
                             [FluxComponent(dir)])]
         ELSE tflux[i]]

\* The array entries a call reads and writes, species by species.
Accesses(ntrc, beg, end, dir, line) ==
  LET species == 0 .. (ntrc - 1)
  IN  [ fieldReads |-> GradientReads(beg, end, dir, line),
        vcReads    |-> UNION {{i, i + 1} : i \in FluxLoop(beg, end)},
        dxReads    |-> UNION {{i, i + 1} : i \in FluxLoop(beg, end)},
        gradWrites |-> {<<trc, sc[1], sc[2]>> :
                          trc \in species, sc \in GradientWrites(beg, end, dir)},
        gradReads  |-> {<<trc, i, FluxComponent(dir)>> :
                          trc \in species, i \in FluxLoop(beg, end)},
        fluxWrites |-> FluxLoop(beg, end) \X species ]

(* ----------------------------------------------------------------------- *)
(* State                                                                   *)
(* ----------------------------------------------------------------------- *)

VARIABLES
  TracerField,   \* TracerField[trc][k][j][i], owned by the host
  vc,            \* sweep->vn[i][RHO]
  grid,          \* the Grid structure
  g_inputParam,  \* run-time parameters
  g_dir,         \* sweep direction of the current / last call
  g_i, g_j, g_k, \* the cell the sweep line passes through
  gradTRC,       \* the static pointer: NULL or the index of a buffer in heap
  heap,          \* the buffers ARRAY_3D has returned, in allocation order
  tracer_flux,   \* tracer_flux[i][trc], the output array
  nCalls,        \* calls of RHS_TRACER_Flux that have returned
  nDoubled,      \* times the host has doubled REYNOLDS
  hist,          \* record of the last two calls, most recent first
  thr,           \* per thread: position in RHS_TRACER_Flux and its arguments
  mode,          \* "serial": one call at a time; "concurrent": calls overlap
  crashed        \* the process was killed by an invalid memory access

vars == <<TracerField, vc, grid, g_inputParam, g_dir, g_i, g_j, g_k, gradTRC,
          heap, tracer_flux, nCalls, nDoubled, hist, thr, mode, crashed>>

inputVars == <<TracerField, vc, grid>>

Sentinel == R(-999)
Threads  == 1 .. NThreads
Line     == <<g_k, g_j, g_i>>

\* Cells with a neighbour on each side in direction d.
Interior(d) == {i \in Cells(d) : i - 1 \in Cells(d) /\ i + 1 \in Cells(d)}

IdleThread == [pc |-> "idle", sawNull |-> FALSE, dir |-> IDIR, beg |-> 0, end |-> 0]

InitWith(fk, gk, dir0, i0, j0, k0, md) ==
  /\ TracerField  = MkField(fk, gk)
  /\ vc           = MkSweep(gk)
  /\ grid         = MkGrid(gk)
  /\ g_inputParam = MkParams(gk)
  /\ g_dir        = dir0
  /\ g_i = i0 /\ g_j = j0 /\ g_k = k0
  /\ gradTRC      = NULL
  /\ heap         = << >>
  /\ tracer_flux  = [i \in 0 .. (NMAX_POINT - 1) |->
                       [trc \in 0 .. (NTRACER - 1) |-> Sentinel]]
  /\ nCalls       = 0
  /\ nDoubled     = 0
  /\ hist         = << >>
  /\ thr          = [t \in Threads |-> IdleThread]
  /\ mode         = md
  /\ crashed      = FALSE

\* The tracer fields and grids the host sets up.
Scenarios ==
  { <<"constant", "stretched">>, <<"xramp", "uniform">>,
    <<"affine", "uniform">>,     <<"affine", "stretched">>,
    <<"generic", "uniform">>,    <<"generic", "stretched">> }

MinOf(S) == CHOOSE x \in S : \A y \in S : x <= y
MaxOf(S) == CHOOSE x \in S : \A y \in S : x >= y

\* The cells <<k, j, i>> the sweep lines of a run pass through: the first
\* and the last cell that has neighbours in every direction.
SweepCells ==
  { <<MinOf(Interior(KDIR)), MinOf(Interior(JDIR)), MinOf(Interior(IDIR))>>,
    <<MaxOf(Interior(KDIR)), MaxOf(Interior(JDIR)), MaxOf(Interior(IDIR))>> }

Init ==
  \E sc \in Scenarios, cell \in SweepCells :
    InitWith(sc[1], sc[2], IDIR, cell[3], cell[2], cell[1], "serial")

(* ----------------------------------------------------------------------- *)
(* A call of RHS_TRACER_Flux by a single-threaded host                     *)
(* ----------------------------------------------------------------------- *)

\* What a call leaves in hist: its arguments, the globals it read, the flux
\* array as it left it, and the array entries it read and wrote.
CallRecord(n, dir, beg, end, alloc, fluxAfter, acc) ==
  [ n |-> n, dir |-> dir, beg |-> beg, end |-> end, line |-> Line,
    params |-> g_inputParam, nu |-> NuDye(g_inputParam), allocated |-> alloc,
    flux |-> fluxAfter,
    fieldReads |-> acc.fieldReads, vcReads |-> acc.vcReads,
    dxReads |-> acc.dxReads, gradWrites |-> acc.gradWrites,
    gradReads |-> acc.gradReads, fluxWrites |-> acc.fluxWrites ]

Remember(rec) == IF hist = << >> THEN <<rec>> ELSE <<rec, hist[1]>>

\* Some read of the call fell outside an array.
InvalidRead(acc, dir) ==
  \/ \E p \in acc.fieldReads : ~ValidCell(p)
  \/ \E i \in acc.vcReads : i \notin DOMAIN vc
  \/ \E i \in acc.dxReads : i \notin Cells(dir)

\* The loops of RHS_TRACER_Flux on the buffer gradTRC' points to (ptr in the
\* heap as it is once the allocation is done): gradient pass, flux pass, and
\* the record of the call.  oob is what a read outside an array returns.
Loops(dir, beg, end, oob, alloc, heap1, ptr) ==
  /\ heap'        = [heap1 EXCEPT ![ptr] =
                       GradientPass(TracerField, heap1[ptr], beg, end, grid,
                                    dir, Line, oob)]
  /\ tracer_flux' = FluxPass(vc, tracer_flux, beg, end, grid, g_inputParam,
                             heap'[ptr], dir, oob)
  /\ LET acc == Accesses(NTRACER, beg, end, dir, Line)
     IN  /\ hist'    = Remember(CallRecord(nCalls + 1, dir, beg, end, alloc,
                                           tracer_flux', acc))
         /\ crashed' \in (IF InvalidRead(acc, dir) THEN BOOLEAN ELSE {FALSE})

\* The whole of RHS_TRACER_Flux, run to completion: the lazy allocation, then
\* the loops.
RHS_TRACER_Flux(dir, beg, end, oob) ==
  LET alloc == AllocNeeded(gradTRC)
      heap1 == IF alloc THEN Append(heap, AllocateGradTRC) ELSE heap
      ptr   == IF alloc THEN Len(heap1) ELSE gradTRC
  IN  /\ g_dir'   = dir
      /\ gradTRC' = ptr
      /\ Loops(dir, beg, end, oob, alloc, heap1, ptr)
      /\ nCalls'  = nCalls + 1
      /\ UNCHANGED <<inputVars, g_inputParam, g_i, g_j, g_k, nDoubled, thr, mode>>

\* The range the host passes: beg <= end, and the interface i+1/2 of every
\* index has a cell on both sides.
InContract(dir, beg, end) ==
  /\ beg \in Cells(dir) /\ end \in Cells(dir) /\ beg <= end
  /\ end + 1 \in Cells(dir)

HostCall ==
  /\ nCalls < MaxCalls /\ ~crashed
  /\ \E dir \in Dirs : \E beg \in Cells(dir), end \in Cells(dir) :
       /\ InContract(dir, beg, end)
       /\ RHS_TRACER_Flux(dir, beg, end, Zero)

\* The host (a test harness) doubles the Reynolds number between two calls.
DoubleReynolds ==
  /\ nDoubled < MaxDoublings /\ ~crashed
  /\ g_inputParam' = [g_inputParam EXCEPT ![REYNOLDS] = RMul(R(2), @)]
  /\ nDoubled' = nDoubled + 1
  /\ UNCHANGED <<inputVars, g_dir, g_i, g_j, g_k, gradTRC, heap, tracer_flux,
                 nCalls, hist, thr, mode, crashed>>

Next == HostCall

Spec == Init /\ [][Next]_vars

(* ----------------------------------------------------------------------- *)
(* A host that also changes REYNOLDS between calls                         *)
(* ----------------------------------------------------------------------- *)

FirstSweepCell ==
  <<MinOf(Interior(KDIR)), MinOf(Interior(JDIR)), MinOf(Interior(IDIR))>>

InitReynolds ==
  InitWith("generic", "stretched", IDIR, FirstSweepCell[3], FirstSweepCell[2],
           FirstSweepCell[1], "serial")

NextReynolds == HostCall \/ DoubleReynolds

SpecReynolds == InitReynolds /\ [][NextReynolds]_vars

(* ----------------------------------------------------------------------- *)
(* A host that passes any range of cell indices                            *)
(* ----------------------------------------------------------------------- *)

\* What a read outside an array may return.
Garbage == {R(9), R(-4)}

\* beg <= end, both cell indices of the sweep direction; nothing is asked
\* of end + 1.  A read outside an array returns an arbitrary value or kills
\* the process.
HostCallAnyRange ==
  /\ nCalls < MaxCalls /\ ~crashed
  /\ \E dir \in Dirs : \E beg \in Cells(dir), end \in Cells(dir) :
       /\ beg <= end
       /\ \E oob \in Garbage : RHS_TRACER_Flux(dir, beg, end, oob)

InitAnyRange ==
  InitWith("generic", "stretched", IDIR, FirstSweepCell[3], FirstSweepCell[2],
           FirstSweepCell[1], "serial")

NextAnyRange == HostCallAnyRange

SpecAnyRange == InitAnyRange /\ [][NextAnyRange]_vars

(* ----------------------------------------------------------------------- *)
(* A host with several threads: RHS_TRACER_Flux statement by statement     *)
(* ----------------------------------------------------------------------- *)

InFlight == {t \in Threads : thr[t].pc # "idle"}

threadFrame == <<inputVars, g_inputParam, g_dir, g_i, g_j, g_k, nDoubled, mode>>

\* Thread t calls RHS_TRACER_Flux and computes del_u, chi and nu_dye.  A
\* serial host starts a call only when no other call is in progress.
T_Enter(t) ==
  /\ thr[t].pc = "idle"
  /\ nCalls + Cardinality(InFlight) < MaxCalls
  /\ mode = "serial" => InFlight = {}
  /\ \E beg \in Cells(g_dir), end \in Cells(g_dir) :
       /\ InContract(g_dir, beg, end)
       /\ beg = 0
       /\ thr' = [thr EXCEPT ![t].pc = "test", ![t].dir = g_dir,
                             ![t].beg = beg, ![t].end = end]
  /\ UNCHANGED <<threadFrame, gradTRC, heap, tracer_flux, nCalls, hist, crashed>>

\* if (gradTRC == NULL)
T_Test(t) ==
  /\ thr[t].pc = "test"
  /\ thr' = [thr EXCEPT ![t].pc = IF AllocNeeded(gradTRC) THEN "alloc" ELSE "loops",
                        ![t].sawNull = @ \/ AllocNeeded(gradTRC)]
  /\ UNCHANGED <<threadFrame, gradTRC, heap, tracer_flux, nCalls, hist, crashed>>

\* gradTRC = ARRAY_3D(NTRACER, NMAX_POINT, 3, double);
T_Alloc(t) ==
  /\ thr[t].pc = "alloc"
  /\ heap'    = Append(heap, AllocateGradTRC)
  /\ gradTRC' = Len(heap')
  /\ thr'     = [thr EXCEPT ![t].pc = "loops"]
  /\ UNCHANGED <<threadFrame, tracer_flux, nCalls, hist, crashed>>

\* The loops over species and cells, on the buffer gradTRC points to now,
\* and the return.
T_Loops(t) ==
  /\ thr[t].pc = "loops"
  /\ Loops(thr[t].dir, thr[t].beg, thr[t].end, Zero, thr[t].sawNull, heap, gradTRC)
  /\ nCalls' = nCalls + 1
  /\ thr'    = [thr EXCEPT ![t].pc = "idle"]
  /\ UNCHANGED <<threadFrame, gradTRC>>

InitThreads ==
  \E md \in {"serial", "concurrent"}, dir \in Dirs :
    InitWith("generic", "stretched", dir, FirstSweepCell[3], FirstSweepCell[2],
             FirstSweepCell[1], md)

NextThreads ==
  \E t \in Threads : T_Enter(t) \/ T_Test(t) \/ T_Alloc(t) \/ T_Loops(t)

SpecThreads == InitThreads /\ [][NextThreads]_vars

(* ----------------------------------------------------------------------- *)
(* Properties                                                              *)
(* ----------------------------------------------------------------------- *)

Called    == hist # << >>
Last      == hist[1]
Prev      == hist[2]
Buffer    == heap[gradTRC]
Species   == 0 .. (NTRACER - 1)
Range(c)  == c.beg .. c.end

\* C1: after a call, for every species trc and every index i in [beg, end],
\* tracer_flux[i][trc] = rho_if * nu * grad[i][g_dir], with rho_if the
\* spacing-weighted interface density (rho[i]*dx[i] + rho[i+1]*dx[i+1]) /
\* (dx[i] + dx[i+1]), nu = (LENGTH * 2*U_FLOW / REYNOLDS) / (UNIT_LENGTH *
\* UNIT_VELOCITY) and grad the gradient buffer as the call left it; in the
\* Cartesian example (dx = 0.01, tracer 1.0 and 2.0, density 1.0, REYNOLDS =
\* 1e4, U_FLOW = LENGTH = 1.0, sweep along IDIR) the flux is 0.02.
C1_Example(i) ==
  /\ g_dir = IDIR
  /\ grid.dx[IDIR][i] = Q(1, 100) /\ grid.dx[IDIR][i + 1] = Q(1, 100)
  /\ grid.inv_dxi[IDIR][i] = R(100)
  /\ TracerField[0][g_k][g_j][i] = R(1) /\ TracerField[0][g_k][g_j][i + 1] = R(2)
  /\ vc[i] = R(1) /\ vc[i + 1] = R(1)
  /\ g_inputParam[REYNOLDS] = R(10000)
  /\ g_inputParam[U_FLOW] = R(1) /\ g_inputParam[LENGTH] = R(1)

C1_FluxFormula ==
  Called =>
    LET dx == grid.dx[g_dir]
        nu == RDiv(RDiv(RMul(g_inputParam[LENGTH],
                             RMul(R(2), g_inputParam[U_FLOW])),
                        g_inputParam[REYNOLDS]),
                   RMul(g_inputParam[LENGTH], g_inputParam[U_FLOW]))
        rho_if(i) == RDiv(RAdd(RMul(vc[i], dx[i]), RMul(vc[i + 1], dx[i + 1])),
                          RAdd(dx[i], dx[i + 1]))
    IN  \A trc \in Species, i \in Range(Last) :
          /\ tracer_flux[i][trc] =
               RMul(RMul(rho_if(i), nu), Buffer[trc][i][g_dir])
          /\ ~IsIndet(tracer_flux[i][trc])
          /\ (trc = 0 /\ C1_Example(i)) => tracer_flux[i][trc] = Q(2, 100)

C1_Witness ==
  /\ Called
  /\ \E i \in Range(Last) : C1_Example(i) /\ tracer_flux[i][0] = Q(1, 50)
  /\ Last.beg < Last.end

\* C2: in any sequence of calls, every gradient-buffer entry a call reads
\* for the flux was assigned by GetTracerGradient in that same call, and the
\* flux the call leaves in [beg, end] is the flux the same call computes on
\* a freshly allocated buffer: nothing left by an earlier call reaches it.
C2_FluxOnFreshBuffer ==
  FluxPass(vc, tracer_flux, Last.beg, Last.end, grid, g_inputParam,
           GradientPass(TracerField, ARRAY_3D(NTRACER, NMAX_POINT, 3),
                        Last.beg, Last.end, grid, g_dir, Line, Zero),
           g_dir, Zero)

C2_WrittenBeforeRead ==
  Called =>
    /\ Last.gradReads \subseteq Last.gradWrites
    /\ \A r \in Last.gradReads : ~IsIndet(Buffer[r[1]][r[2]][r[3]])
    /\ \A trc \in Species, i \in Range(Last) :
         tracer_flux[i][trc] = C2_FluxOnFreshBuffer[i][trc]

\* A second call along another direction over a range that overlaps the
\* first one's and leaves part of it untouched.
C2_Witness ==
  /\ Len(hist) = 2
  /\ Last.dir # Prev.dir
  /\ Prev.beg < Last.beg /\ Last.beg <= Prev.end
  /\ ~IsIndet(Buffer[0][Prev.beg][Prev.dir])

\* C3: a call writes tracer_flux[i][trc] and gradient-buffer entries only
\* for beg <= i <= end: flux entries outside [beg, end] keep their values,
\* buffer entries outside [beg, end] are neither read nor written, and the
\* tracer field, the sweep state and the grid are unchanged.
C3_Frame ==
  [][nCalls' = nCalls + 1 =>
       LET c == hist'[1]
       IN  /\ \A i \in DOMAIN tracer_flux :
                i \notin Range(c) => tracer_flux'[i] = tracer_flux[i]
           /\ \A trc \in Species, s \in 0 .. (NMAX_POINT - 1), k \in {0, 1, 2} :
                s \notin Range(c) =>
                  heap'[gradTRC'][trc][s][k] =
                    IF gradTRC = NULL THEN Indet ELSE heap[gradTRC][trc][s][k]
           /\ \A w \in c.gradWrites \cup c.gradReads : w[2] \in Range(c)
           /\ \A w \in c.fluxWrites : w[1] \in Range(c)
           /\ TracerField' = TracerField /\ vc' = vc /\ grid' = grid
  ]_vars

\* A call that leaves the sentinel below beg and above end.
C3_Witness ==
  /\ Called
  /\ Last.beg > 0 /\ Last.end + 1 < NMAX_POINT
  /\ \A i \in DOMAIN tracer_flux :
       (i \in Range(Last)) <=> (tracer_flux[i][0] # Sentinel)

\* C4: if the tracer field has the same value in every cell, every gradient
\* component the call computed, along the sweep and across it, is exactly
\* zero at every index of [beg, end], whatever the grid spacings.
FieldIsUniform ==
  \A trc \in Species :
    \A k \in Cells(KDIR), j \in Cells(JDIR), i \in Cells(IDIR) :
      TracerField[trc][k][j][i] = TracerField[trc][0][0][0]

C4_UniformFieldZeroGradient ==
  (Called /\ FieldIsUniform) =>
    /\ \A w \in Last.gradWrites : Buffer[w[1]][w[2]][w[3]] = Zero
    /\ \A trc \in Species, s \in Range(Last) :
         /\ <<trc, s, g_dir>> \in Last.gradWrites
         /\ \E c \in {0, 1, 2} \ {g_dir} : <<trc, s, c>> \in Last.gradWrites

C4_Witness ==
  /\ Called /\ FieldIsUniform
  /\ grid.dx[g_dir][0] # grid.dx[g_dir][1]
  /\ g_dir = JDIR /\ Last.beg < Last.end
  /\ Buffer[0][Last.end][0] = Zero /\ Buffer[0][Last.end][1] = Zero

\* C5: if along the sweep line the tracer is a + b*x, x the cell-centre
\* coordinate of the sweep direction, and inv_dxi[i] is the inverse of the
\* distance between the centres of cells i and i+1, then the sweep-direction
\* gradient component is b at every index of [beg, end], on uniform and on
\* non-uniform grids.
SlopeAlongLine(trc) ==
  LET x == grid.x[g_dir]
      F(s) == FieldAt(TracerField[trc], CellOnLine(g_dir, Line, s), Indet)
  IN  RDiv(RSub(F(1), F(0)), RSub(x[1], x[0]))

LinearAlongLine(trc) ==
  LET x == grid.x[g_dir]
      F(s) == FieldAt(TracerField[trc], CellOnLine(g_dir, Line, s), Indet)
      b == SlopeAlongLine(trc)
  IN  \A s \in Cells(g_dir) :
        F(s) = RAdd(F(0), RMul(b, RSub(x[s], x[0])))

InterfaceSpacingIsCentreDistance ==
  \A s \in Range(Last) :
    grid.inv_dxi[g_dir][s] =
      RDiv(R(1), RSub(grid.x[g_dir][s + 1], grid.x[g_dir][s]))

C5_LinearFieldSlope ==
  Called =>
    \A trc \in Species :
      (LinearAlongLine(trc) /\ InterfaceSpacingIsCentreDistance) =>
        \A s \in Range(Last) : Buffer[trc][s][g_dir] = SlopeAlongLine(trc)

C5_Witness ==
  /\ Called
  /\ LinearAlongLine(0) /\ InterfaceSpacingIsCentreDistance
  /\ SlopeAlongLine(0) = R(-3)
  /\ g_dir = JDIR /\ Last.beg < Last.end
  /\ grid.dx[JDIR][Last.beg] # grid.dx[JDIR][Last.end]
  /\ Buffer[0][Last.end][JDIR] = R(-3)

\* C6: two calls on the same tracer field, sweep state and grid, with the
\* same direction, line and range and the same U_FLOW and LENGTH, that
\* differ only in REYNOLDS being doubled: nu_dye of the second is exactly
\* half that of the first, and so is its flux at every index of [beg, end].
OnlyReynoldsDoubled ==
  /\ Len(hist) = 2
  /\ Last.dir = Prev.dir /\ Last.line = Prev.line
  /\ Last.beg = Prev.beg /\ Last.end = Prev.end
  /\ Last.params[U_FLOW] = Prev.params[U_FLOW]
  /\ Last.params[LENGTH] = Prev.params[LENGTH]
  /\ Last.params[REYNOLDS] = RMul(R(2), Prev.params[REYNOLDS])

C6_DoubleReynoldsHalvesFlux ==
  OnlyReynoldsDoubled =>
    /\ RMul(R(2), Last.nu) = Prev.nu
    /\ ~IsIndet(Last.nu) /\ Last.nu # Zero
    /\ \A trc \in Species, i \in Range(Last) :
         /\ RMul(R(2), Last.flux[i][trc]) = Prev.flux[i][trc]
         /\ ~IsIndet(Last.flux[i][trc])

C6_Witness ==
  /\ OnlyReynoldsDoubled
  /\ Last.beg < Last.end
  /\ \A i \in Range(Last) : Last.flux[i][0] # Zero /\ tracer_flux[i][0] = Last.flux[i][0]

\* C7: with two threads calling while the buffer is unallocated there is an
\* interleaving in which both see gradTRC == NULL and both allocate, so the
\* buffer is allocated more than once; when the calls are serialized it is
\* allocated at most once.  Every allocation is that of a thread that saw
\* gradTRC == NULL.
SawNullAndAllocated == {t \in Threads : thr[t].sawNull /\ thr[t].pc # "alloc"}

C7_LazyAllocationRace ==
  /\ mode = "serial" => Len(heap) <= 1
  /\ Len(heap) = Cardinality(SawNullAndAllocated)
  /\ (nCalls > 0 \/ \E t \in Threads : thr[t].pc = "loops") => Len(heap) >= 1

C7_Witness ==
  /\ mode = "concurrent"
  /\ Len(heap) >= 2
  /\ Cardinality({t \in Threads : thr[t].sawNull}) >= 2

\* C8: in the configured build (DIMENSIONS = 2, Cartesian) a sweep along
\* IDIR or JDIR computes gradient components 0 and 1 only: component 2 of the
\* buffer is not written, and the tracer field is not read at k-1 or k+1.
C8_TwoDimensionalSweep ==
  [][(nCalls' = nCalls + 1 /\ g_dir' \in {IDIR, JDIR}) =>
       LET c == hist'[1]
       IN  /\ {w[3] : w \in c.gradWrites} = {0, 1}
           /\ \A p \in c.fieldReads : p[1] = g_k
           /\ \A trc \in Species, s \in 0 .. (NMAX_POINT - 1) :
                /\ heap'[gradTRC'][trc][s][2] =
                     IF gradTRC = NULL THEN Indet ELSE heap[gradTRC][trc][s][2]
                /\ s \in Range(c) =>
                     /\ ~IsIndet(heap'[gradTRC'][trc][s][0])
                     /\ ~IsIndet(heap'[gradTRC'][trc][s][1])
  ]_vars

C8_Witness ==
  /\ Len(hist) = 2
  /\ Last.dir = JDIR /\ Prev.dir = IDIR
  /\ \A s \in 0 .. (NMAX_POINT - 1) : IsIndet(Buffer[0][s][2])
  /\ \E s \in Range(Last) : Buffer[0][s][0] # Zero /\ Buffer[0][s][1] # Zero

\* C9: across serialized calls the gradient buffer is allocated exactly
\* once, during the first call, with extent NTRACER x NMAX_POINT x 3; later
\* calls use that buffer and neither reallocate nor free it.
C9_AllocatedOnce ==
  /\ nCalls = 0 => (gradTRC = NULL /\ heap = << >>)
  /\ nCalls >= 1 =>
       /\ Len(heap) = 1 /\ gradTRC = 1
       /\ DOMAIN Buffer = 0 .. (NTRACER - 1)
       /\ \A trc \in DOMAIN Buffer :
            /\ DOMAIN Buffer[trc] = 0 .. (NMAX_POINT - 1)
            /\ \A s \in DOMAIN Buffer[trc] : DOMAIN Buffer[trc][s] = {0, 1, 2}
       /\ \A n \in DOMAIN hist : hist[n].allocated <=> (hist[n].n = 1)

C9_Witness ==
  /\ nCalls = MaxCalls /\ Len(hist) = 2
  /\ Prev.allocated /\ ~Last.allocated
  /\ Len(heap) = 1

\* C10 as stated: if beg <= end are valid cell indices of the sweep
\* direction and the line has a neighbouring cell on each side across the
\* sweep, every index at which the call reads the tracer field, vc and dx is
\* a valid cell index.
TransverseNeighbours(c) ==
  \A d \in Dirs \ {c.dir} :
    c.line[3 - d] - 1 \in Cells(d) /\ c.line[3 - d] + 1 \in Cells(d)

RangeOfValidCells(c) ==
  c.beg <= c.end /\ c.beg \in Cells(c.dir) /\ c.end \in Cells(c.dir)

AllReadsValid(c) ==
  /\ \A p \in c.fieldReads : ValidCell(p)
  /\ \A i \in c.vcReads : i \in DOMAIN vc
  /\ \A i \in c.dxReads : i \in Cells(c.dir)

C10_AsStated ==
  (Called /\ RangeOfValidCells(Last) /\ TransverseNeighbours(Last)) =>
    AllReadsValid(Last)

\* C10, amended: the same, provided end + 1 is a valid cell index of the
\* sweep direction as well (the interface end+1/2 has a cell on both sides).
C10_ReadsValidWithForwardNeighbour ==
  (Called /\ RangeOfValidCells(Last) /\ TransverseNeighbours(Last)
          /\ Last.end + 1 \in Cells(Last.dir)) =>
    (AllReadsValid(Last) /\ ~crashed)

\* The call whose last interface touches the last cell of the line.
C10_Witness ==
  /\ Called /\ RangeOfValidCells(Last) /\ TransverseNeighbours(Last)
  /\ Last.beg = 0 /\ Last.end + 1 = NX_TOT(Last.dir) - 1
  /\ Last.end + 1 \in Last.vcReads
  /\ CellOnLine(Last.dir, Last.line, Last.end + 1) \in Last.fieldReads
  /\ ~crashed

====
